---- MODULE Spec2Model ----
(***************************************************************************)
(* Model of src/assets.py: the Dagster job pipeline_covid and its seven    *)
(* ops (leer_datos, chequear_datos, datos_procesados,                      *)
(* metrica_incidencia_7d, metrica_factor_crec_7d, chequeo_incidencia,      *)
(* reporte_excel_covid).                                                   *)
(*                                                                         *)
(* A DataFrame is [columns |-> sequence of names, rows |-> sequence of     *)
(* rows], a row being a function from column names to cells.  Numeric      *)
(* cells are float64 values modelled exactly: <<"num", n, d>> is the       *)
(* rational n/d in lowest terms, <<"nan", 0, 1>> is NaN and                *)
(* <<"inf", s, 1>> is s * infinity.  Date cells are [k, d]: k = "str" a    *)
(* parsable date string for day d, "bad" an unparsable string, "nan" a     *)
(* missing cell, "ts" a Timestamp for day d, "nat" NaT.                    *)
(***************************************************************************)
EXTENDS Integers, Sequences, FiniteSets, TLC

\* ------------------------------------------------------------------------
\* Bounds of the model
\* ------------------------------------------------------------------------
\* Longest CSV body the source answers with in the job specification.
MaxRawRows == 2

\* Most rows of the country with the long series in a cleaned table.
MaxRows == 14

\* Most rows of the other country in a cleaned table.
MaxOther == 2

\* The other country's records enter the table while the long series is
\* within this many records of its full length.
MaxTail == 2

\* ------------------------------------------------------------------------
\* float64 cells
\* ------------------------------------------------------------------------
Num(n) == <<"num", n, 1>>

NaN == <<"nan", 0, 1>>

PosInf == <<"inf", 1, 1>>

NegInf == <<"inf", -1, 1>>

IsNaN(x) == x[1] = "nan"

IsInf(x) == x[1] = "inf"

IsFinite(x) == x[1] = "num"

Abs(n) == IF n < 0 THEN -n ELSE n

RECURSIVE Gcd(_, _)
Gcd(a, b) == IF b = 0 THEN a ELSE Gcd(b, a % b)

\* n/d with d > 0, in lowest terms.
Rat(n, d) == LET g == Gcd(Abs(n), d) IN <<"num", n \div g, d \div g>>

Sign(x) == IF x[2] > 0 THEN 1 ELSE IF x[2] < 0 THEN -1 ELSE 0

\* x + y on floats.
FAdd(x, y) ==
    IF IsFinite(x) /\ IsFinite(y) /\ x[3] = 1 /\ y[3] = 1 THEN <<"num", x[2] + y[2], 1>>
    ELSE IF IsNaN(x) \/ IsNaN(y) THEN NaN
    ELSE IF IsInf(x) /\ IsInf(y) THEN (IF x[2] = y[2] THEN x ELSE NaN)
    ELSE IF IsInf(x) THEN x
    ELSE IF IsInf(y) THEN y
    ELSE IF x[3] = y[3] THEN Rat(x[2] + y[2], x[3])
    ELSE LET g == Gcd(x[3], y[3])
         IN  Rat(x[2] * (y[3] \div g) + y[2] * (x[3] \div g), (x[3] \div g) * y[3])

\* x * y on floats.
FMul(x, y) ==
    IF IsNaN(x) \/ IsNaN(y) THEN NaN
    ELSE IF IsInf(x) \/ IsInf(y)
         THEN (IF Sign(x) * Sign(y) = 0 THEN NaN
               ELSE <<"inf", Sign(x) * Sign(y), 1>>)
    ELSE LET g1 == Gcd(Abs(x[2]), y[3])
             g2 == Gcd(Abs(y[2]), x[3])
         IN  Rat((x[2] \div g1) * (y[2] \div g2), (x[3] \div g2) * (y[3] \div g1))

\* x / y on floats: division by zero gives an infinity or NaN, never an error.
FDiv(x, y) ==
    IF IsNaN(x) \/ IsNaN(y) THEN NaN
    ELSE IF IsInf(y) THEN (IF IsInf(x) THEN NaN ELSE Num(0))
    ELSE IF y[2] = 0
         THEN (IF Sign(x) = 0 THEN NaN ELSE <<"inf", Sign(x), 1>>)
    ELSE IF IsInf(x) THEN <<"inf", Sign(x) * Sign(y), 1>>
    ELSE FMul(x, IF y[2] > 0 THEN <<"num", y[3], y[2]>> ELSE <<"num", -y[3], -y[2]>>)

\* x <= y on floats: every comparison with NaN is false.
FLe(x, y) ==
    IF IsNaN(x) \/ IsNaN(y) THEN FALSE
    ELSE IF IsInf(x) THEN (x[2] < 0 \/ x = y)
    ELSE IF IsInf(y) THEN y[2] > 0
    ELSE x[2] * y[3] <= y[2] * x[3]

\* ------------------------------------------------------------------------
\* date cells
\* ------------------------------------------------------------------------
StrDate(d) == [k |-> "str", d |-> d]

BadDate == [k |-> "bad", d |-> 0]

NaNDate == [k |-> "nan", d |-> 0]

Ts(d) == [k |-> "ts", d |-> d]

NaT == [k |-> "nat", d |-> 0]

\* datetime.today().date() of the run (line 27).
Today == 5

\* pd.to_datetime(cell, errors="coerce"): what cannot be parsed becomes NaT.
to_datetime_coerce(c) ==
    IF c.k = "str" \/ c.k = "ts" THEN Ts(c.d) ELSE NaT

\* pd.to_datetime(column) with the default errors="raise".
to_datetime_raises(rows) == \E i \in 1..Len(rows) : rows[i]["date"].k = "bad"

IsNaDate(c) == c.k = "nan" \/ c.k = "nat"

\* ------------------------------------------------------------------------
\* DataFrames
\* ------------------------------------------------------------------------
\* pd.DataFrame(): no columns, no rows.
EmptyDataFrame == [columns |-> <<>>, rows |-> <<>>]

Range(s) == {s[i] : i \in 1..Len(s)}

\* The function f on 1..n as the sequence of its values.
AsSeq(f) == f \o <<>>

HasColumns(df, cs) == cs \subseteq Range(df.columns)

\* df[name] = column: an existing column is replaced in place, a new one is
\* appended as the last column.
SetColumn(df, name, col) ==
    [columns |-> IF name \in Range(df.columns) THEN df.columns
                 ELSE Append(df.columns, name),
     rows |-> AsSeq([i \in 1..Len(df.rows) |->
                 IF name \in DOMAIN df.rows[i]
                 THEN [df.rows[i] EXCEPT ![name] = col[i]]
                 ELSE df.rows[i] @@ (name :> col[i])])]

\* df[[c1, ..., cn]]: a new frame with these columns, in this order.
Project(df, cs) ==
    [columns |-> cs,
     rows |-> AsSeq([i \in 1..Len(df.rows) |-> [c \in Range(cs) |-> df.rows[i][c]]])]

\* .rename(columns=m) on a frame whose columns are DOMAIN m.
Rename(df, m) ==
    [columns |-> [i \in 1..Len(df.columns) |-> m[df.columns[i]]],
     rows |-> AsSeq([i \in 1..Len(df.rows) |->
                 [c \in {m[x] : x \in DOMAIN m} |->
                     df.rows[i][CHOOSE x \in DOMAIN m : m[x] = c]]])]

\* The rows at the positions of S, in table order.
\* df[name] as a sequence of cells.
Column(rows, name) == AsSeq([i \in 1..Len(rows) |-> rows[i][name]])

RECURSIVE KeepRows(_, _, _)
KeepRows(rows, S, i) ==
    IF i > Len(rows) THEN <<>>
    ELSE IF i \in S THEN <<rows[i]>> \o KeepRows(rows, S, i + 1)
    ELSE KeepRows(rows, S, i + 1)

\* The sum of f over the set S.
RECURSIVE SumSet(_, _)
SumSet(S, f) ==
    IF S = {} THEN Num(0)
    ELSE LET i == CHOOSE j \in S : TRUE IN FAdd(f[i], SumSet(S \ {i}, f))

\* The sum of col over the first k places of the index sequence W.
RECURSIVE SumOver(_, _, _)
SumOver(W, col, k) ==
    IF k = 0 THEN Num(0) ELSE FAdd(SumOver(W, col, k - 1), col[W[k]])

\* ------------------------------------------------------------------------
\* Program constants
\* ------------------------------------------------------------------------
\* The only status leer_datos treats as success (line 14).
StatusOK == 200

\* Incidence is per 100000 inhabitants (line 70).
Per100k == 100000

\* rolling(7, ...) of both derivations (lines 72 and 85).
Window == 7

\* min_periods of the incidence rolling mean (line 72).
MinPeriodsIncidencia == 1

\* min_periods of the weekly rolling sum (line 85).
MinPeriodsCasos == 7

\* shift(7) of the weekly sum within the country (line 87).
ShiftSemana == 7

\* Plausibility range of incidencia_7d (line 99).
RangoMin == 0

RangoMax == 2000

\* Countries kept by the cleaner (line 59).
Paises == {"Ecuador", "Argentina"}

\* A missing country cell.
NaCountry == "NaN"

\* ------------------------------------------------------------------------
\* leer_datos (lines 8-21)
\* ------------------------------------------------------------------------
\* pd.read_csv(StringIO(text)): the header gives the columns, each record a row.
read_csv(text) == [columns |-> text.header, rows |-> text.records]

\* requests.get raises on a timeout or a connection error and nothing catches
\* it; a status other than 200 gives pd.DataFrame(); read_csv raises on a
\* body that is no CSV.
leer_datos(r) ==
    IF r.kind = "timeout" THEN [raised |-> "Timeout", ret |-> EmptyDataFrame]
    ELSE IF r.kind = "connection_error"
         THEN [raised |-> "ConnectionError", ret |-> EmptyDataFrame]
    ELSE IF r.status_code # StatusOK THEN [raised |-> "none", ret |-> EmptyDataFrame]
    ELSE IF ~r.text.wellformed THEN [raised |-> "ParserError", ret |-> EmptyDataFrame]
    ELSE [raised |-> "none", ret |-> read_csv(r.text)]

\* ------------------------------------------------------------------------
\* chequear_datos (lines 23-51)
\* ------------------------------------------------------------------------
\* len(df[df["date"] > hoy]): NaT compares false.
fechas_invalidas(rows) ==
    Cardinality({i \in 1..Len(rows) : rows[i]["date"].k = "ts" /\ rows[i]["date"].d > Today})

\* df[["country", "date", "population"]].isna().sum().sum()
nulos(rows) ==
    Cardinality({i \in 1..Len(rows) : rows[i]["country"] = NaCountry})
    + Cardinality({i \in 1..Len(rows) : IsNaDate(rows[i]["date"])})
    + Cardinality({i \in 1..Len(rows) : IsNaN(rows[i]["population"])})

\* df.duplicated(subset=["country", "date"]).sum(): rows after the first of a key.
duplicados(rows) ==
    Cardinality({i \in 1..Len(rows) :
        \E j \in 1..(i - 1) : /\ rows[j]["country"] = rows[i]["country"]
                              /\ rows[j]["date"] = rows[i]["date"]})

\* The op assigns the parsed dates to the frame it was given (line 26) and
\* returns that same frame (line 51); arg is the caller's frame afterwards.
chequear_datos(df) ==
    IF ~HasColumns(df, {"date"})
    THEN [raised |-> "KeyError", ret |-> EmptyDataFrame, arg |-> df,
          log |-> <<0, 0, 0>>]
    ELSE LET df1 == SetColumn(df, "date",
                      [i \in 1..Len(df.rows) |-> to_datetime_coerce(df.rows[i]["date"])])
         IN  IF ~HasColumns(df1, {"country", "date", "population"})
             THEN [raised |-> "KeyError", ret |-> EmptyDataFrame, arg |-> df1,
                   log |-> <<fechas_invalidas(df1.rows), 0, 0>>]
             ELSE [raised |-> "none", ret |-> df1, arg |-> df1,
                   log |-> <<fechas_invalidas(df1.rows), nulos(df1.rows),
                             duplicados(df1.rows)>>]

\* ------------------------------------------------------------------------
\* datos_procesados (lines 54-62)
\* ------------------------------------------------------------------------
Columnas == <<"country", "date", "new_cases", "people_vaccinated", "population">>

\* dropna(subset=["new_cases", "people_vaccinated"])
dropna(rows) ==
    KeepRows(rows, {i \in 1..Len(rows) : /\ ~IsNaN(rows[i]["new_cases"])
                                          /\ ~IsNaN(rows[i]["people_vaccinated"])}, 1)

\* drop_duplicates(): of rows equal in every column the first is kept.
drop_duplicates(rows) ==
    KeepRows(rows, {i \in 1..Len(rows) : \A j \in 1..(i - 1) : rows[j] # rows[i]}, 1)

\* df_proc[df_proc["country"].isin(["Ecuador", "Argentina"])]
isin_paises(rows) ==
    KeepRows(rows, {i \in 1..Len(rows) : rows[i]["country"] \in Paises}, 1)

\* The cleaner builds new frames only: its argument is left as it was.
datos_procesados(df) ==
    IF ~HasColumns(df, {"new_cases", "people_vaccinated"}) \/ ~HasColumns(df, Range(Columnas))
    THEN [raised |-> "KeyError", ret |-> EmptyDataFrame, arg |-> df]
    ELSE [raised |-> "none",
          ret |-> Project([columns |-> df.columns,
                           rows |-> isin_paises(drop_duplicates(dropna(df.rows)))],
                          Columnas),
          arg |-> df]

\* ------------------------------------------------------------------------
\* Rolling windows and lags within a country (lines 71-73 and 84-87)
\* ------------------------------------------------------------------------
\* A window taken over the whole table instead of the row's country.
Peers_sin_agrupar(rows, i) == [k \in 1..i |-> k]

\* groupby("country"): the positions of the rows of row i's group up to row
\* i, in table order.  Neither derivation sorts: the order of a group is the
\* order of the table.
Peers(rows, i) ==
    SelectSeq([k \in 1..i |-> k], LAMBDA j : rows[j]["country"] = rows[i]["country"])

\* The window of rolling(w) ending at row i: row i and the w - 1 rows of its
\* group before it.
WindowOf(rows, i, w) ==
    LET G == Peers(rows, i)
        r == Len(G)
    IN  SubSeq(G, IF r > w THEN r - w + 1 ELSE 1, r)

\* The observations of a window: rolling skips NaN, and takes an infinity as NaN.
Observations(col, W) == SelectSeq(W, LAMBDA j : IsFinite(col[j]))

\* x.rolling(w, min_periods=m).mean() at row i of the group of row i.  A row
\* whose country is missing belongs to no group and gets NaN.
RollingMean(rows, col, i, w, m) ==
    LET V == Observations(col, WindowOf(rows, i, w))
    IN  IF rows[i]["country"] = NaCountry \/ Len(V) < m \/ Len(V) = 0 THEN NaN
        ELSE FDiv(SumOver(V, col, Len(V)), Num(Len(V)))

\* x.rolling(w, min_periods=m).sum() at row i of the group of row i.
RollingSum(rows, col, i, w, m) ==
    LET V == Observations(col, WindowOf(rows, i, w))
    IN  IF rows[i]["country"] = NaCountry \/ Len(V) < m \/ Len(V) = 0 THEN NaN
        ELSE SumOver(V, col, Len(V))

\* groupby("country")[...].shift(n) at row i: the value n rows earlier in the
\* group, NaN when the group has no such row.
GroupShift(rows, col, i, n) ==
    LET G == Peers(rows, i)
        r == Len(G)
    IN  IF rows[i]["country"] = NaCountry \/ r <= n THEN NaN ELSE col[G[r - n]]

\* ------------------------------------------------------------------------
\* metrica_incidencia_7d (lines 65-77)
\* ------------------------------------------------------------------------
DateColumn(df) ==
    AsSeq([i \in 1..Len(df.rows) |-> to_datetime_coerce(df.rows[i]["date"])])

\* (new_cases / population) * 100000, row by row (line 70).
incidencia_diaria(rows) ==
    AsSeq([i \in 1..Len(rows) |->
        FMul(FDiv(rows[i]["new_cases"], rows[i]["population"]), Num(Per100k))])

\* Lines 71-73.
incidencia_7d(rows) ==
    LET diaria == Column(rows, "incidencia_diaria")
    IN  AsSeq([i \in 1..Len(rows) |->
            RollingMean(rows, diaria, i, Window, MinPeriodsIncidencia)])

\* The op writes date, incidencia_diaria and incidencia_7d into the frame it
\* was given and returns a renamed projection; arg is the caller's frame
\* afterwards.
metrica_incidencia_7d(df) ==
    IF ~HasColumns(df, {"date"})
    THEN [raised |-> "KeyError", ret |-> EmptyDataFrame, arg |-> df]
    ELSE IF to_datetime_raises(df.rows)
    THEN [raised |-> "ValueError", ret |-> EmptyDataFrame, arg |-> df]
    ELSE LET df1 == SetColumn(df, "date", DateColumn(df))
         IN  IF ~HasColumns(df1, {"new_cases", "population"})
             THEN [raised |-> "KeyError", ret |-> EmptyDataFrame, arg |-> df1]
             ELSE LET df2 == SetColumn(df1, "incidencia_diaria", incidencia_diaria(df1.rows))
                  IN  IF ~HasColumns(df2, {"country"})
                      THEN [raised |-> "KeyError", ret |-> EmptyDataFrame, arg |-> df2]
                      ELSE LET df3 == SetColumn(df2, "incidencia_7d", incidencia_7d(df2.rows))
                           IN  [raised |-> "none",
                                ret |-> Rename(Project(df3, <<"date", "country", "incidencia_7d">>),
                                               [date |-> "fecha", country |-> "país",
                                                incidencia_7d |-> "incidencia_7d"]),
                                arg |-> df3]

\* ------------------------------------------------------------------------
\* metrica_factor_crec_7d (lines 79-91)
\* ------------------------------------------------------------------------
NewCases(rows) == Column(rows, "new_cases")

\* A weekly sum that accepts a partial window, as the incidence mean does.
casos_semana_actual_parcial(rows) ==
    LET casos == NewCases(rows)
    IN  AsSeq([i \in 1..Len(rows) |->
            RollingSum(rows, casos, i, Window, MinPeriodsIncidencia)])

\* Lines 84-86.
casos_semana_actual(rows) ==
    LET casos == NewCases(rows)
    IN  AsSeq([i \in 1..Len(rows) |-> RollingSum(rows, casos, i, Window, MinPeriodsCasos)])

\* Line 87.
casos_semana_prev(rows) ==
    LET actual == Column(rows, "casos_semana_actual")
    IN  AsSeq([i \in 1..Len(rows) |-> GroupShift(rows, actual, i, ShiftSemana)])

\* Line 88.
factor_crec_7d(rows) ==
    AsSeq([i \in 1..Len(rows) |->
        FDiv(rows[i]["casos_semana_actual"], rows[i]["casos_semana_prev"])])

\* The op writes date, casos_semana_actual, casos_semana_prev and
\* factor_crec_7d into the frame it was given.
metrica_factor_crec_7d(df) ==
    IF ~HasColumns(df, {"date"})
    THEN [raised |-> "KeyError", ret |-> EmptyDataFrame, arg |-> df]
    ELSE IF to_datetime_raises(df.rows)
    THEN [raised |-> "ValueError", ret |-> EmptyDataFrame, arg |-> df]
    ELSE LET df1 == SetColumn(df, "date", DateColumn(df))
         IN  IF ~HasColumns(df1, {"country", "new_cases"})
             THEN [raised |-> "KeyError", ret |-> EmptyDataFrame, arg |-> df1]
             ELSE LET df2 == SetColumn(df1, "casos_semana_actual", casos_semana_actual(df1.rows))
                      df3 == SetColumn(df2, "casos_semana_prev", casos_semana_prev(df2.rows))
                      df4 == SetColumn(df3, "factor_crec_7d", factor_crec_7d(df3.rows))
                  IN  [raised |-> "none",
                       ret |-> Rename(Project(df4, <<"date", "country", "casos_semana_actual",
                                                     "factor_crec_7d">>),
                                      [date |-> "semana_fin", country |-> "país",
                                       casos_semana_actual |-> "casos_semana",
                                       factor_crec_7d |-> "factor_crec_7d"]),
                       arg |-> df4]

\* ------------------------------------------------------------------------
\* chequeo_incidencia (lines 94-102)
\* ------------------------------------------------------------------------
\* Series.min(): NaN is skipped; NaN when nothing is left.
SeriesMin(col) ==
    LET V == {col[i] : i \in {j \in DOMAIN col : ~IsNaN(col[j])}}
    IN  IF V = {} THEN NaN ELSE CHOOSE m \in V : \A x \in V : FLe(m, x)

\* Series.max()
SeriesMax(col) ==
    LET V == {col[i] : i \in {j \in DOMAIN col : ~IsNaN(col[j])}}
    IN  IF V = {} THEN NaN ELSE CHOOSE m \in V : \A x \in V : FLe(x, m)

\* A validator that forgets the minimum.
dentro_del_rango_solo_max(min_val, max_val) ==
    FLe(Num(RangoMin), max_val) /\ FLe(max_val, Num(RangoMax))

\* 0 <= min_val <= 2000 and 0 <= max_val <= 2000 (line 99)
dentro_del_rango(min_val, max_val) ==
    /\ FLe(Num(RangoMin), min_val) /\ FLe(min_val, Num(RangoMax))
    /\ FLe(Num(RangoMin), max_val) /\ FLe(max_val, Num(RangoMax))

\* The op prints one of two messages and returns None; it writes nothing
\* into its argument.
chequeo_incidencia(inc) ==
    IF ~HasColumns(inc, {"incidencia_7d"})
    THEN [raised |-> "KeyError", log |-> "none", arg |-> inc]
    ELSE LET col == [i \in 1..Len(inc.rows) |-> inc.rows[i]["incidencia_7d"]]
         IN  [raised |-> "none",
              log |-> IF dentro_del_rango(SeriesMin(col), SeriesMax(col))
                      THEN "dentro del rango" ELSE "fuera del rango",
              arg |-> inc]

\* ------------------------------------------------------------------------
\* reporte_excel_covid (lines 105-114)
\* ------------------------------------------------------------------------
\* The three sheets of reporte_covid.xlsx, each a frame written with its
\* header and without its index.
reporte_excel_covid(proc, inc, fac) ==
    [datos_procesados |-> proc, incidencia_7d |-> inc, factor_crec_7d |-> fac]

NoReporte == reporte_excel_covid(EmptyDataFrame, EmptyDataFrame, EmptyDataFrame)

\* ------------------------------------------------------------------------
\* What the source can answer (the input of a run)
\* ------------------------------------------------------------------------
RawColumns ==
    <<"country", "date", "total_cases", "new_cases", "people_vaccinated", "population">>

RawRow(c, d, t, n, v, p) ==
    [country |-> c, date |-> d, total_cases |-> t, new_cases |-> n,
     people_vaccinated |-> v, population |-> p]

\* Well-formed records of the two countries of interest ...
BaseRows ==
    {RawRow(c, StrDate(d), Num(0), Num(n), Num(5), Num(1000000)) :
        c \in Paises, d \in {1, 2}, n \in {100, 200}}

\* ... and one record for each way a cell can be off.
OddRows ==
    {RawRow("Chile", StrDate(1), Num(0), Num(100), Num(5), Num(1000000)),
     RawRow(NaCountry, StrDate(1), Num(0), Num(100), Num(5), Num(1000000)),
     RawRow("Ecuador", BadDate, Num(0), Num(100), Num(5), Num(1000000)),
     RawRow("Ecuador", NaNDate, Num(0), Num(100), Num(5), Num(1000000)),
     RawRow("Ecuador", StrDate(Today + 1), Num(0), Num(100), Num(5), Num(1000000)),
     RawRow("Ecuador", StrDate(1), Num(1), Num(100), Num(5), Num(1000000)),
     RawRow("Ecuador", StrDate(1), Num(0), NaN, Num(5), Num(1000000)),
     RawRow("Ecuador", StrDate(1), Num(0), Num(-100), Num(5), Num(1000000)),
     RawRow("Ecuador", StrDate(1), Num(0), Num(100), NaN, Num(1000000)),
     RawRow("Ecuador", StrDate(1), Num(0), Num(100), Num(5), NaN),
     RawRow("Ecuador", StrDate(1), Num(0), Num(100), Num(5), Num(5000)),
     RawRow("Ecuador", StrDate(1), Num(0), Num(100), Num(5), Num(1))}

RawRows == BaseRows \cup OddRows

RawBodies == UNION {[1..n -> RawRows] : n \in 0..MaxRawRows}

NoText == [wellformed |-> FALSE, header |-> <<>>, records |-> <<>>]

\* The outcomes of requests.get(url, timeout=10): the wait expires, the
\* connection fails, or a response arrives with a status and a body.
Responses ==
    {[kind |-> k, status_code |-> 0, text |-> NoText] : k \in {"timeout", "connection_error"}}
    \cup {[kind |-> "response", status_code |-> c, text |-> NoText] : c \in {404, 500}}
    \cup {[kind |-> "response", status_code |-> StatusOK, text |-> NoText]}
    \cup {[kind |-> "response", status_code |-> StatusOK,
           text |-> [wellformed |-> TRUE, header |-> RawColumns, records |-> b]] :
             b \in RawBodies}

\* ------------------------------------------------------------------------
\* The job pipeline_covid (lines 117-131)
\* ------------------------------------------------------------------------
Steps ==
    {"leer_datos", "chequear_datos", "datos_procesados", "metrica_incidencia_7d",
     "metrica_factor_crec_7d", "chequeo_incidencia", "reporte_excel_covid"}

\* A wiring in which the Sink does not wait for the growth table.
Upstream_sin_factor(s) ==
    CASE s = "leer_datos" -> {}
      [] s = "chequear_datos" -> {"leer_datos"}
      [] s = "datos_procesados" -> {"chequear_datos"}
      [] s = "metrica_incidencia_7d" -> {"datos_procesados"}
      [] s = "metrica_factor_crec_7d" -> {"datos_procesados"}
      [] s = "chequeo_incidencia" -> {"metrica_incidencia_7d"}
      [] s = "reporte_excel_covid" -> {"datos_procesados", "metrica_incidencia_7d"}

\* The steps whose outputs the job wires into step s.  chequeo_incidencia
\* returns nothing, so no step takes an input from it.
Upstream(s) ==
    CASE s = "leer_datos" -> {}
      [] s = "chequear_datos" -> {"leer_datos"}
      [] s = "datos_procesados" -> {"chequear_datos"}
      [] s = "metrica_incidencia_7d" -> {"datos_procesados"}
      [] s = "metrica_factor_crec_7d" -> {"datos_procesados"}
      [] s = "chequeo_incidencia" -> {"metrica_incidencia_7d"}
      [] s = "reporte_excel_covid" ->
            {"datos_procesados", "metrica_incidencia_7d", "metrica_factor_crec_7d"}

\* How the job is executed.  execute_in_process runs one step at a time and
\* hands each output object itself to the steps that take it; the
\* multiprocess executor runs every ready step in a process of its own and
\* hands each of them an unpickled copy of the output.
Executors == {"in_process", "multiprocess"}

VARIABLES
    resp,          \* the outcome of the HTTP request of this run
    executor,      \* the executor of this run
    st,            \* st[s]: pending, running, success, failure or skipped
    excepcion,     \* excepcion[s]: the exception step s raised, or "none"
    df_raw,        \* the output of leer_datos
    df_checkeado,  \* the output of chequear_datos
    df_proc,       \* the output of datos_procesados
    incidencia,    \* the output of metrica_incidencia_7d
    factor_crec,   \* the output of metrica_factor_crec_7d
    alertas,       \* the three counts chequear_datos printed
    veredicto,     \* the message chequeo_incidencia printed
    reporte,       \* the sheets of reporte_covid.xlsx
    feed           \* day order of the source's records (cleaned-table runs)

vars ==
    <<resp, executor, st, excepcion, df_raw, df_checkeado, df_proc, incidencia,
      factor_crec, alertas, veredicto, reporte, feed>>

Shared == executor = "in_process"

Init ==
    /\ resp \in Responses
    /\ executor \in Executors
    /\ st = [s \in Steps |-> "pending"]
    /\ excepcion = [s \in Steps |-> "none"]
    /\ df_raw = EmptyDataFrame
    /\ df_checkeado = EmptyDataFrame
    /\ df_proc = EmptyDataFrame
    /\ incidencia = EmptyDataFrame
    /\ factor_crec = EmptyDataFrame
    /\ alertas = <<0, 0, 0>>
    /\ veredicto = "none"
    /\ reporte = NoReporte
    /\ feed = "oldest_first"

Begun(s) == st[s] \in {"running", "success", "failure"}

\* The executor starts a pending step once every step it takes an input from
\* has succeeded; in process, only while no other step is running.
StartStep(s) ==
    /\ st[s] = "pending"
    /\ \A u \in Upstream(s) : st[u] = "success"
    /\ Shared => \A u \in Steps : st[u] # "running"
    /\ st' = [st EXCEPT ![s] = "running"]
    /\ UNCHANGED <<resp, executor, excepcion, df_raw, df_checkeado, df_proc, incidencia,
                   factor_crec, alertas, veredicto, reporte, feed>>

\* A step below a failed or skipped step is not run.
SkipStep(s) ==
    /\ st[s] = "pending"
    /\ \E u \in Upstream(s) : st[u] \in {"failure", "skipped"}
    /\ st' = [st EXCEPT ![s] = "skipped"]
    /\ UNCHANGED <<resp, executor, excepcion, df_raw, df_checkeado, df_proc, incidencia,
                   factor_crec, alertas, veredicto, reporte, feed>>

Finish(s, raised) ==
    /\ st' = [st EXCEPT ![s] = IF raised = "none" THEN "success" ELSE "failure"]
    /\ excepcion' = [excepcion EXCEPT ![s] = raised]

RunLeerDatos ==
    /\ st["leer_datos"] = "running"
    /\ LET r == leer_datos(resp)
       IN  /\ Finish("leer_datos", r.raised)
           /\ df_raw' = r.ret
    /\ UNCHANGED <<resp, executor, df_checkeado, df_proc, incidencia, factor_crec,
                   alertas, veredicto, reporte, feed>>

RunChequearDatos ==
    /\ st["chequear_datos"] = "running"
    /\ LET r == chequear_datos(df_raw)
       IN  /\ Finish("chequear_datos", r.raised)
           /\ df_checkeado' = r.ret
           /\ df_raw' = IF Shared THEN r.arg ELSE df_raw
           /\ alertas' = r.log
    /\ UNCHANGED <<resp, executor, df_proc, incidencia, factor_crec, veredicto, reporte,
                   feed>>

RunDatosProcesados ==
    /\ st["datos_procesados"] = "running"
    /\ LET r == datos_procesados(df_checkeado)
       IN  /\ Finish("datos_procesados", r.raised)
           /\ df_proc' = r.ret
    /\ UNCHANGED <<resp, executor, df_raw, df_checkeado, incidencia, factor_crec, alertas,
                   veredicto, reporte, feed>>

RunMetricaIncidencia ==
    /\ st["metrica_incidencia_7d"] = "running"
    /\ LET r == metrica_incidencia_7d(df_proc)
       IN  /\ Finish("metrica_incidencia_7d", r.raised)
           /\ incidencia' = r.ret
           /\ df_proc' = IF Shared THEN r.arg ELSE df_proc
    /\ UNCHANGED <<resp, executor, df_raw, df_checkeado, factor_crec, alertas, veredicto,
                   reporte, feed>>

RunMetricaFactorCrec ==
    /\ st["metrica_factor_crec_7d"] = "running"
    /\ LET r == metrica_factor_crec_7d(df_proc)
       IN  /\ Finish("metrica_factor_crec_7d", r.raised)
           /\ factor_crec' = r.ret
           /\ df_proc' = IF Shared THEN r.arg ELSE df_proc
    /\ UNCHANGED <<resp, executor, df_raw, df_checkeado, incidencia, alertas, veredicto,
                   reporte, feed>>

RunChequeoIncidencia ==
    /\ st["chequeo_incidencia"] = "running"
    /\ LET r == chequeo_incidencia(incidencia)
       IN  /\ Finish("chequeo_incidencia", r.raised)
           /\ veredicto' = r.log
           /\ incidencia' = IF Shared THEN r.arg ELSE incidencia
    /\ UNCHANGED <<resp, executor, df_raw, df_checkeado, df_proc, factor_crec, alertas,
                   reporte, feed>>

RunReporteExcel ==
    /\ st["reporte_excel_covid"] = "running"
    /\ Finish("reporte_excel_covid", "none")
    /\ reporte' = reporte_excel_covid(df_proc, incidencia, factor_crec)
    /\ UNCHANGED <<resp, executor, df_raw, df_checkeado, df_proc, incidencia, factor_crec,
                   alertas, veredicto, feed>>

Next ==
    \/ \E s \in Steps : StartStep(s)
    \/ \E s \in Steps : SkipStep(s)
    \/ RunLeerDatos
    \/ RunChequearDatos
    \/ RunDatosProcesados
    \/ RunMetricaIncidencia
    \/ RunMetricaFactorCrec
    \/ RunChequeoIncidencia
    \/ RunReporteExcel

Spec == Init /\ [][Next]_vars

\* ------------------------------------------------------------------------
\* Claims about a run of the job (checked under Spec)
\* ------------------------------------------------------------------------
Succeeded(s) == st[s] = "success"

\* The frame leer_datos returned, as the response determines it.
Parsed == read_csv(resp.text)

\* The frame datos_procesados returned: chequear_datos's output is written by
\* no later step.
Cleaned == datos_procesados(df_checkeado).ret

\* C1: leer_datos never raises: on a status other than 200, a timeout, a
\* network error or a malformed body it returns an empty table, and on
\* success the parsed table.
C1_ReaderNeverRaises ==
    /\ st["leer_datos"] # "failure"
    /\ (Succeeded("leer_datos") /\ st["chequear_datos"] = "pending") =>
          df_raw = IF resp.kind = "response" /\ resp.status_code = StatusOK
                      /\ resp.text.wellformed
                   THEN Parsed ELSE EmptyDataFrame

\* C2: when leer_datos substitutes the empty table for a failed download,
\* every later stage runs without raising and the run ends with three empty
\* sheets written.
C2_EmptyRunCompletes ==
    (resp.kind = "response" /\ resp.status_code # StatusOK) =>
        /\ \A s \in Steps : st[s] \notin {"failure", "skipped"}
        /\ Succeeded("reporte_excel_covid") =>
              /\ reporte.datos_procesados.rows = <<>>
              /\ reporte.incidencia_7d.rows = <<>>
              /\ reporte.factor_crec_7d.rows = <<>>

\* Row j comes before row i when the rows are ordered by date ascending, ties
\* and missing dates by original order, missing dates last.
ChronoBefore(rows, j, i) ==
    LET a == rows[j]["date"]
        b == rows[i]["date"]
    IN  IF a.k = "nat" /\ b.k = "nat" THEN j < i
        ELSE IF a.k = "nat" THEN FALSE
        ELSE IF b.k = "nat" THEN TRUE
        ELSE a.d < b.d \/ (a.d = b.d /\ j < i)

\* Row i and the rows of its entity that come before it chronologically.
ChronoPeers(rows, i) ==
    {j \in 1..Len(rows) : /\ rows[j]["country"] = rows[i]["country"]
                          /\ (j = i \/ ChronoBefore(rows, j, i))}

\* Row i and the up to 6 rows that precede it in its entity's date order.
ChronoWindow(rows, i) ==
    {j \in ChronoPeers(rows, i) :
        Cardinality({k \in ChronoPeers(rows, i) : k = j \/ ChronoBefore(rows, j, k)}) <= 7}

\* The mean of the defined new_cases / population * 100000 over that window.
ChronoMean(rows, i) ==
    LET d == [j \in 1..Len(rows) |->
                FMul(FDiv(rows[j]["new_cases"], rows[j]["population"]), Num(100000))]
        V == {j \in ChronoWindow(rows, i) : IsFinite(d[j])}
    IN  IF V = {} THEN NaN ELSE FDiv(SumSet(V, d), Num(Cardinality(V)))

\* Every row of row i's entity has a date, so the entity has a date order.
Dated(rows, i) ==
    \A j \in 1..Len(rows) :
        rows[j]["country"] = rows[i]["country"] => rows[j]["date"].k = "ts"

\* C3: for every cleaned table, in any input order, incidencia_7d of a row is
\* the mean of incidencia_diaria over the row and the up to 6 rows before it
\* in its entity's date-ascending order.
C3_ChronologicalMean ==
    Succeeded("metrica_incidencia_7d") =>
        \A i \in 1..Len(incidencia.rows) :
            Dated(Cleaned.rows, i) =>
                incidencia.rows[i]["incidencia_7d"] = ChronoMean(Cleaned.rows, i)

\* C5: after cleaning no two rows share country and date.
C5_NaturalKeyUnique ==
    Succeeded("datos_procesados") =>
        \A i, j \in 1..Len(Cleaned.rows) :
            (i < j /\ Cleaned.rows[i]["date"].k = "ts") =>
                ~(/\ Cleaned.rows[i]["country"] = Cleaned.rows[j]["country"]
                  /\ Cleaned.rows[i]["date"] = Cleaned.rows[j]["date"])

\* Two date cells hold the same value: a date string and the Timestamp of the
\* same day, or two missing values, count as the same.
SameDate(a, b) ==
    \/ a = b
    \/ (a.k \in {"str", "ts"} /\ b.k \in {"str", "ts"} /\ a.d = b.d)
    \/ (IsNaDate(a) /\ IsNaDate(b))

SameTable(x, y) ==
    /\ x.columns = y.columns
    /\ Len(x.rows) = Len(y.rows)
    /\ \A i \in 1..Len(x.rows) : \A c \in Range(x.columns) :
          IF c = "date" THEN SameDate(x.rows[i][c], y.rows[i][c])
          ELSE x.rows[i][c] = y.rows[i][c]

\* C6: for every raw table the source delivers, chequear_datos never raises
\* and returns the table it received: same rows, same order, same cell values.
C6_GatePassThrough ==
    (resp.kind = "response" /\ resp.status_code = StatusOK /\ resp.text.wellformed) =>
        /\ st["chequear_datos"] # "failure"
        /\ Succeeded("chequear_datos") => SameTable(df_checkeado, Parsed)

\* The defined values of incidencia_7d.
Incidencias(inc) ==
    {inc.rows[i]["incidencia_7d"] :
        i \in {j \in 1..Len(inc.rows) : ~IsNaN(inc.rows[j]["incidencia_7d"])}}

\* C8: chequeo_incidencia reports "in range" exactly when the minimum and the
\* maximum of incidencia_7d lie in [0, 2000], "out of range" otherwise (also
\* for a table without rows, whose minimum and maximum are undefined); it
\* never raises and leaves the incidence table as the derivation returned it.
C8_RangeVerdict ==
    /\ st["chequeo_incidencia"] # "failure"
    /\ Succeeded("chequeo_incidencia") =>
          /\ veredicto \in {"dentro del rango", "fuera del rango"}
          /\ veredicto = "dentro del rango" <=>
                /\ Incidencias(incidencia) # {}
                /\ \A v \in Incidencias(incidencia) :
                      FLe(Num(0), v) /\ FLe(v, Num(2000))
          /\ incidencia = metrica_incidencia_7d(Cleaned).ret

\* C8 witness: the validator has run on an incidence table without rows.
C8_Witness ==
    /\ Succeeded("chequeo_incidencia")
    /\ incidencia.rows = <<>>
    /\ veredicto = "fuera del rango"

\* The stages in the order the claim gives them.
StageOrder ==
    <<{"leer_datos"}, {"chequear_datos"}, {"datos_procesados"},
      {"metrica_incidencia_7d", "metrica_factor_crec_7d"},
      {"chequeo_incidencia"}, {"reporte_excel_covid"}>>

Consumes ==
    {<<"leer_datos", "chequear_datos">>,
     <<"chequear_datos", "datos_procesados">>,
     <<"datos_procesados", "metrica_incidencia_7d">>,
     <<"datos_procesados", "metrica_factor_crec_7d">>,
     <<"metrica_incidencia_7d", "chequeo_incidencia">>,
     <<"datos_procesados", "reporte_excel_covid">>,
     <<"metrica_incidencia_7d", "reporte_excel_covid">>,
     <<"metrica_factor_crec_7d", "reporte_excel_covid">>}

C10_CleanedTableUntouched ==
    /\ (Succeeded("metrica_incidencia_7d") \/ Succeeded("metrica_factor_crec_7d")) =>
          (df_proc.columns = Columnas /\ df_proc = Cleaned)
    /\ Succeeded("reporte_excel_covid") =>
          (reporte.datos_procesados.columns = Columnas
           /\ reporte.datos_procesados = Cleaned)

\* ------------------------------------------------------------------------
\* The derivations on cleaned tables (SpecMetrics)
\*
\* The state is a cleaned table df_proc together with the two tables the
\* derivations return for it.  A step changes the table the way the source
\* changes between runs (a record is published, retracted, or two records
\* change places) and applies both derivations to the new table, each on a
\* copy of its own.
\* ------------------------------------------------------------------------
\* The country with the long series and the other one.
Larga == "Ecuador"

Otra == "Argentina"

Cap(c) == IF c = Larga THEN MaxRows ELSE MaxOther

\* new_cases of the records of a country.
CasosDe(c) == IF c = Larga THEN {0, 1} ELSE {3}

RowsOf(rows, c) == {i \in 1..Len(rows) : rows[i]["country"] = c}

CleanRow(c, d, n) ==
    [country |-> c, date |-> Ts(d), new_cases |-> Num(n),
     people_vaccinated |-> Num(5), population |-> Num(Per100k)]

\* The day of the next record of a country that has k records: the source
\* lists the days of a country oldest first or newest first.
NextDay(k) == IF feed = "oldest_first" THEN k + 1 ELSE -k

Derive(edited) ==
    /\ df_proc' = edited
    /\ incidencia' = metrica_incidencia_7d(edited).ret
    /\ factor_crec' = metrica_factor_crec_7d(edited).ret
    /\ UNCHANGED <<resp, executor, st, excepcion, df_raw, df_checkeado, alertas,
                   veredicto, reporte, feed>>

InitMetrics ==
    /\ resp = [kind |-> "response", status_code |-> StatusOK, text |-> NoText]
    /\ executor = "multiprocess"
    /\ st = [s \in Steps |-> "pending"]
    /\ excepcion = [s \in Steps |-> "none"]
    /\ df_raw = EmptyDataFrame
    /\ df_checkeado = EmptyDataFrame
    /\ df_proc = [columns |-> Columnas, rows |-> <<>>]
    /\ incidencia = metrica_incidencia_7d(df_proc).ret
    /\ factor_crec = metrica_factor_crec_7d(df_proc).ret
    /\ alertas = <<0, 0, 0>>
    /\ veredicto = "none"
    /\ reporte = NoReporte
    /\ feed \in {"oldest_first", "newest_first"}

\* The source publishes one more record of country c.  The series of a
\* country never falls, and it changes only from one week to the next; the
\* other country starts reporting late in the long series.
PublishRow(c, n) ==
    LET mine == RowsOf(df_proc.rows, c)
    IN  /\ Cardinality(mine) < Cap(c)
        /\ c = Otra => Cardinality(RowsOf(df_proc.rows, Larga)) + MaxTail >= MaxRows
        /\ \A i \in mine : df_proc.rows[i]["new_cases"][2] <= n
        /\ Cardinality(mine) % Window # 0 =>
              \A i \in mine : (\A j \in mine : j <= i) =>
                  df_proc.rows[i]["new_cases"][2] = n
        /\ Derive([df_proc EXCEPT !.rows =
                      Append(@, CleanRow(c, NextDay(Cardinality(mine)), n))])

\* The source retracts record i of the other country.
RetractRow(i) ==
    /\ df_proc.rows[i]["country"] = Otra
    /\ Derive([df_proc EXCEPT !.rows =
                  KeepRows(@, (1..Len(@)) \ {i}, 1)])

\* Records i and j of the other country change places.
ReorderRows(i, j) ==
    /\ i < j
    /\ df_proc.rows[i]["country"] = Otra
    /\ df_proc.rows[j]["country"] = Otra
    /\ df_proc.rows[i] # df_proc.rows[j]
    /\ Derive([df_proc EXCEPT !.rows =
                  [k \in 1..Len(@) |-> IF k = i THEN @[j] ELSE IF k = j THEN @[i] ELSE @[k]]])

NextMetrics ==
    \/ \E c \in Paises : \E n \in CasosDe(c) : PublishRow(c, n)
    \/ \E i \in 1..Len(df_proc.rows) : RetractRow(i)
    \/ \E i, j \in 1..Len(df_proc.rows) : ReorderRows(i, j)

SpecMetrics == InitMetrics /\ [][NextMetrics]_vars

\* ------------------------------------------------------------------------
\* Claims about the derivations (checked under SpecMetrics)
\* ------------------------------------------------------------------------
\* The place of row i among the rows of its entity, in table order.
TableRank(rows, i) ==
    Cardinality({j \in 1..i : rows[j]["country"] = rows[i]["country"]})

\* The place of row i among the rows of its entity, in date order.
ChronoRank(rows, i) == Cardinality(ChronoPeers(rows, i))

CasosSemana(i) == factor_crec.rows[i]["casos_semana"]

FactorCrec(i) == factor_crec.rows[i]["factor_crec_7d"]

\* The weekly sum 7 places before row i in its entity's date order is zero.
ChronoLagIsZero(i) ==
    \E j \in 1..Len(df_proc.rows) :
        /\ df_proc.rows[j]["country"] = df_proc.rows[i]["country"]
        /\ ChronoRank(df_proc.rows, j) + ShiftSemana = ChronoRank(df_proc.rows, i)
        /\ CasosSemana(j) = Num(0)

TableLag(rows, i, n) ==
    CHOOSE j \in 1..i : /\ rows[j]["country"] = rows[i]["country"]
                        /\ TableRank(rows, j) + n = TableRank(rows, i)

\* The new_cases of row i and of the 6 rows of its entity before it in the
\* table, added up.
TableWeek(rows, i) ==
    SumSet({j \in 1..i : /\ rows[j]["country"] = rows[i]["country"]
                         /\ TableRank(rows, j) + Window > TableRank(rows, i)},
           [j \in 1..Len(rows) |-> rows[j]["new_cases"]])

EntityRows(c) == SelectSeq(df_proc.rows, LAMBDA r : r["country"] = c)

\* What the two derivations return for the rows of entity c.
EntityIncidencia(c) == SelectSeq(incidencia.rows, LAMBDA r : r["país"] = c)

EntityFactor(c) == SelectSeq(factor_crec.rows, LAMBDA r : r["país"] = c)

\* C7: whatever happens to the rows of the other entities (a row deleted, two
\* rows exchanged, a row added, next to its own rows or not), an entity whose
\* own rows stay as they are keeps every incidencia_7d, casos_semana and
\* factor_crec_7d value.
C7_EntityIsolation ==
    [][\A a \in Paises :
          EntityRows(a)' = EntityRows(a) =>
              /\ EntityIncidencia(a)' = EntityIncidencia(a)
              /\ EntityFactor(a)' = EntityFactor(a)]_vars

\* C7: the long entity has a growth factor, a row of the other entity stands
\* between two of its rows, and the rows of the other entity have changed
\* places (they are against the order of the feed).
C7_Witness ==
    /\ \E i \in 1..Len(factor_crec.rows) :
          /\ df_proc.rows[i]["country"] = Larga
          /\ IsFinite(FactorCrec(i))
    /\ \E i, j, k \in 1..Len(df_proc.rows) :
          /\ i < j /\ j < k /\ k < i + Window
          /\ df_proc.rows[i]["country"] = Larga
          /\ df_proc.rows[j]["country"] = Otra
          /\ df_proc.rows[k]["country"] = Larga
    /\ \E i, j \in 1..Len(df_proc.rows) :
          /\ i < j
          /\ df_proc.rows[i]["country"] = Otra
          /\ df_proc.rows[j]["country"] = Otra
          /\ (feed = "oldest_first") = (df_proc.rows[i]["date"].d > df_proc.rows[j]["date"].d)
          /\ df_proc.rows[i]["date"].d # df_proc.rows[j]["date"].d

====
